---- MODULE Spec2Model ----
(***************************************************************************)
(* A model of the mahjong game service (MahjongGameService) and of the     *)
(* HTTP handlers that mutate its single shared game-state document.        *)
(*                                                                         *)
(* The service keeps one dict, _game_state, and writes it whole to a       *)
(* Redis key after every mutation.  The dict is modelled by the record     *)
(* variable game_state.  Keys that some code path leaves out of the dict   *)
(* are tracked in game_state.keys; a field whose key is absent holds a     *)
(* fixed default so that equal dicts are equal records.  The entries of    *)
(* player_hands under str keys are in game_state.player_hands, those under *)
(* int keys (GameState.dict() gives them) in game_state.int_hands.         *)
(*                                                                         *)
(* Abstractions: timestamps (datetime.now()) are left out of the entries   *)
(* that carry them; uuid4() is a counter that never repeats a value; the   *)
(* static "players" table of the initial state is tracked as a key only.   *)
(***************************************************************************)
EXTENDS Integers, Sequences, FiniteSets, TLC

VARIABLES
    game_state,   \* MahjongGameService._game_state
    redis,        \* the document stored under "mahjong:game_state": <<>> or <<doc>>
    uuid_next,    \* the next value uuid.uuid4() returns
    response,     \* what the last request returned to its caller
    served,       \* the number of requests served so far
    hand_tiles,   \* the tiles list of a HandTiles object of the legacy methods
    redis_up,     \* whether a command sent to the Redis server gets an answer
    other_state   \* _game_state of the process the next request is not routed to

vars ==
    <<game_state, redis, uuid_next, response, served, hand_tiles, redis_up,
      other_state>>

----------------------------------------------------------------------------
(* Bounds of the model *)

\* the number of requests a behaviour of each specification serves
MaxServed == 4
MaxTurnServed == 6
MaxSessionServed == 3
MaxPrefix == 2
MaxMeldServed == 4
MaxReduceServed == 3
MaxCodecServed == 2
MaxPlayerServed == 4
MaxSeatServed == 3
MaxStoreServed == 3
MaxProcessServed == 3
MaxKongServed == 3
MaxDealServed == 60
MaxDealPrefix == 2
MaxPileServed == 3
\* the longest tiles list a reduction starts from
MaxHandTiles == 3
\* the shuffles a reset draws from
MaxShuffle == 1

----------------------------------------------------------------------------
(* Seats, tiles *)

Seats == 0 .. 3

\* str(player_id): the keys of player_hands and player_discarded_tiles
SeatKey(p) == <<"0", "1", "2", "3", "4">>[p + 1]

SeatKeys == {SeatKey(p) : p \in Seats}

\* the keys player_hands can hold: add-hand-count takes any player_id but 0
HandKeys == SeatKeys \cup {SeatKey(4)}

\* request.source_player_id = None, request.game_id = None
NoPlayer == -1

\* no second process serves requests
NoProcess == <<>>
NoGameId == 0

\* TileType: the enum's members, and the value of each
TileType == {"WAN", "TIAO", "TONG", "ZI"}

TileTypeValue(m) ==
    CASE m = "WAN" -> "wan"
      [] m = "TIAO" -> "tiao"
      [] m = "TONG" -> "tong"
      [] m = "ZI" -> "zi"

\* Tile(type=TileType(tile_type), value=v).dict(): the type is the enum member
TileDict(m, v) == [type |-> m, value |-> v]

\* the tiles the requests of the model carry
Tong2 == TileDict("TONG", 2)
Tong3 == TileDict("TONG", 3)
Wan1 == TileDict("WAN", 1)

----------------------------------------------------------------------------
(* The initial document *)

PoolTypes == <<"wan", "tiao", "tong">>
PoolValues == 9
PoolCopies == 4

\* a pool in which honors stand where the circles belong
PoolWithHonors ==
    [i \in 1 .. (Len(PoolTypes) * PoolValues * PoolCopies) |->
        [type |-> <<"wan", "tiao", "zi">>[((i - 1) \div (PoolValues * PoolCopies)) + 1],
         value |-> (((i - 1) \div PoolCopies) % PoolValues) + 1]]

\* the list _initialize_tile_pool builds before shuffling: for each type, for
\* each value 1..9, four dicts {"type": <str>, "value": v}
UnshuffledPool ==
    [i \in 1 .. (Len(PoolTypes) * PoolValues * PoolCopies) |->
        [type |-> PoolTypes[((i - 1) \div (PoolValues * PoolCopies)) + 1],
         value |-> (((i - 1) \div PoolCopies) % PoolValues) + 1]]

\* random.shuffle: the model draws the permutation among the rotations by
\* k positions, k in 0..MaxShuffle
Rotate(s, k) ==
    [i \in 1 .. Len(s) |-> s[((i - 1 + k) % Len(s)) + 1]]

\* a pool that lost its last tile
ShortPool(k) == Rotate(SubSeq(UnshuffledPool, 1, Len(UnshuffledPool) - 1), k)

InitializeTilePool(k) == Rotate(UnshuffledPool, k)

EmptyHand ==
    [present |-> TRUE, tiles_null |-> FALSE, tiles |-> <<>>,
     has_count |-> FALSE, tile_count |-> 0, melds |-> <<>>]

\* a key of player_hands that is not in the dict
AbsentHand ==
    [present |-> FALSE, tiles_null |-> FALSE, tiles |-> <<>>,
     has_count |-> FALSE, tile_count |-> 0, melds |-> <<>>]

\* an initial state that carries no test-mode flag
InitialKeysWithoutFlag ==
    {"game_id", "player_discarded_tiles", "game_started", "last_action",
     "tile_pool", "players"}

InitialKeys ==
    {"game_id", "player_discarded_tiles", "game_started", "last_action",
     "tile_pool", "test_mode", "players"}

CreateInitialState(id, k) ==
    [keys |-> InitialKeys,
     game_id |-> id,
     player_hands |->
        [s \in HandKeys |-> IF s \in SeatKeys THEN EmptyHand ELSE AbsentHand],
     int_hands |-> [p \in Seats |-> AbsentHand],
     discarded_tiles |-> <<>>,
     player_discarded_tiles |-> [s \in SeatKeys |-> <<>>],
     actions_history |-> <<>>,
     current_player |-> 0,
     game_started |-> FALSE,
     last_action |-> <<>>,
     tile_pool |-> InitializeTilePool(k),
     test_mode |-> TRUE]

----------------------------------------------------------------------------
(* Faulty variants of the helpers below, which the properties must tell apart *)

\* the turn stays with the seat that discarded
AdvancePlayerStuck(player_id) == player_id

\* the flag is never read as set
GetTestModeOff(gs) == FALSE

\* no discard is refused for the turn
NotYourTurnNever(gs, request) == FALSE

\* no request is refused for its session
GameIdMismatchNever(gs, request) == FALSE

\* no except clause: the exception leaves the handler
CatchNothing(outcome, message) == outcome

\* list.insert(0, tile)
PrependTile(pile, tile) == <<tile>> \o pile

\* the count is not held at 0
NewCountUnclamped(tile_count, count) == tile_count + count

\* the code leaves the suit out
ToCodeFlat(tile) == tile.value

\* the last position of tile in list, 0 when it is not there
LastIndexOf(list, tile) ==
    LET hits == {i \in 1 .. Len(list) :
                    list[i].type = tile.type /\ list[i].value = tile.value}
    IN  IF hits = {} THEN 0 ELSE CHOOSE i \in hits : \A j \in hits : i >= j

----------------------------------------------------------------------------
(* Helpers *)

RemoveAt(s, i) == [j \in 1 .. (Len(s) - 1) |-> IF j < i THEN s[j] ELSE s[j + 1]]

\* the first position of tile in list, 0 when it is not there
IndexOf(list, tile) ==
    LET hits == {i \in 1 .. Len(list) :
                    list[i].type = tile.type /\ list[i].value = tile.value}
    IN  IF hits = {} THEN 0 ELSE CHOOSE i \in hits : \A j \in hits : i <= j

\* self._game_state.get("test_mode", False)
GetTestMode(gs) == IF "test_mode" \in gs.keys THEN gs.test_mode ELSE FALSE

\* self._game_state.get("game_id"): None (NoGameId) when the key is absent
GetGameId(gs) == IF "game_id" \in gs.keys THEN gs.game_id ELSE NoGameId

\* if player_id not in player_hands: player_hands[player_id] = {"tiles": [], "melds": []}
EnsureHand(gs, key) ==
    IF gs.player_hands[key].present THEN gs
    ELSE [gs EXCEPT !.player_hands[key] = EmptyHand]

\* what a handler hands back: the dict as it leaves it, the uuid counter, the
\* (success, message) pair, whether it reached _save_state, and whether it
\* ended by an exception instead of a return
Outcome(gs, uuid, success, message, save) ==
    [gs |-> gs, uuid |-> uuid, success |-> success, message |-> message,
     save |-> save, raised |-> FALSE]

\* an exception raised with the dict left as gs
Raise(gs, uuid) ==
    [gs |-> gs, uuid |-> uuid, success |-> FALSE, message |-> "exception",
     save |-> FALSE, raised |-> TRUE]

\* try: ... except Exception as e: return False, <message>
CatchAll(outcome, message) ==
    IF outcome.raised
    THEN [outcome EXCEPT !.raised = FALSE, !.success = FALSE, !.message = message]
    ELSE outcome

\* (request.player_id + 1) % 4
AdvancePlayer(player_id) == (player_id + 1) % 4

\* list.append
AppendTile(pile, tile) == Append(pile, tile)

----------------------------------------------------------------------------
(* MahjongGameService: the handlers behind process_operation *)

\* add_tile_to_hand; process_operation turns its bool into the message
AddTileToHand(gs, uuid, request) ==
    LET key == SeatKey(request.player_id)
        gs1 == EnsureHand(gs, key)
        body ==
            IF gs1.player_hands[key].tiles_null
            THEN \* None has no append
                 Raise(gs1, uuid)
            ELSE Outcome(
                    [gs1 EXCEPT
                        !.player_hands[key].tiles =
                            Append(@, [type |-> request.tile.type,
                                       value |-> request.tile.value]),
                        !.actions_history =
                            Append(@, [type |-> "add_hand", action_type |-> "",
                                       player_id |-> request.player_id,
                                       tiles |-> <<request.tile>>])],
                    uuid, TRUE, "hand_ok", TRUE)
    IN  CatchAll(body, "hand_failed")

\* not test_mode and current_player != request.player_id
NotYourTurn(gs, request) ==
    ~GetTestMode(gs) /\ gs.current_player # request.player_id

\* a discard that reaches the global pile only
HandleDiscardGlobalOnly(gs, uuid, request) ==
    Outcome([gs EXCEPT !.discarded_tiles = AppendTile(@, request.tile)],
            uuid, TRUE, "discard_ok", TRUE)

HandleDiscard(gs, uuid, request) ==
    LET player_id == SeatKey(request.player_id)
        test_mode == GetTestMode(gs)
        body ==
            IF NotYourTurn(gs, request)
            THEN Outcome(gs, uuid, FALSE, "not_your_turn", FALSE)
            ELSE IF "player_discarded_tiles" \notin gs.keys
            THEN \* self._game_state["player_discarded_tiles"]: KeyError
                 Raise(gs, uuid)
            ELSE Outcome(
                    [gs EXCEPT
                        !.player_discarded_tiles[player_id] =
                            AppendTile(@, request.tile),
                        !.discarded_tiles = AppendTile(@, request.tile),
                        !.keys = @ \cup {"last_action"},
                        !.last_action =
                            <<[type |-> "discard", player |-> player_id,
                               tile |-> request.tile]>>,
                        !.current_player =
                            IF ~test_mode THEN AdvancePlayer(request.player_id)
                            ELSE @],
                    uuid, TRUE, "discard_ok", TRUE)
    IN  CatchAll(body, "discard_failed")

\* a triplet claim that stores a pair
HandlePengAsPair(gs, uuid, request) ==
    LET player_id == SeatKey(request.player_id)
        gs1 == EnsureHand(gs, player_id)
        meld == [id |-> uuid,
                 type |-> "peng",
                 tiles |-> <<request.tile, request.tile>>,
                 exposed |-> TRUE,
                 gang_type |-> "none",
                 source_player |-> request.source_player_id,
                 original_peng_id |-> 0]
    IN  Outcome([gs1 EXCEPT !.player_hands[player_id].melds = Append(@, meld)],
                uuid + 1, TRUE, "peng_ok", TRUE)

HandlePeng(gs, uuid, request) ==
    LET player_id == SeatKey(request.player_id)
        gs1 == EnsureHand(gs, player_id)
        meld == [id |-> uuid,
                 type |-> "peng",
                 tiles |-> <<request.tile, request.tile, request.tile>>,
                 exposed |-> TRUE,
                 gang_type |-> "none",
                 source_player |-> request.source_player_id,
                 original_peng_id |-> 0]
        body ==
            Outcome(
                [gs1 EXCEPT
                    !.player_hands[player_id].melds = Append(@, meld),
                    !.actions_history =
                        Append(@, [type |-> "", action_type |-> "peng",
                                   player_id |-> request.player_id,
                                   tiles |-> <<request.tile>>])],
                uuid + 1, TRUE, "peng_ok", TRUE)
    IN  CatchAll(body, "peng_failed")

\* gang_type_map.get(request.operation_type, "an_gang")
\* a map whose default is the claimed kong
GangTypeOfClaimed(operation_type) ==
    CASE operation_type = "angang" -> "an_gang"
      [] operation_type = "zhigang" -> "ming_gang"
      [] operation_type = "jiagang" -> "jia_gang"
      [] OTHER -> "ming_gang"

GangTypeOf(operation_type) ==
    CASE operation_type = "angang" -> "an_gang"
      [] operation_type = "zhigang" -> "ming_gang"
      [] operation_type = "jiagang" -> "jia_gang"
      [] OTHER -> "an_gang"

\* the first meld of the hand that is a peng of the request's tile, 0 if none
FirstPengOf(melds, tile) ==
    LET hits == {i \in 1 .. Len(melds) :
                    /\ melds[i].type = "peng"
                    /\ Len(melds[i].tiles) > 0
                    /\ melds[i].tiles[1].type = tile.type
                    /\ melds[i].tiles[1].value = tile.value}
    IN  IF hits = {} THEN 0 ELSE CHOOSE i \in hits : \A j \in hits : i <= j

HandleGang(gs, uuid, request) ==
    LET player_id == SeatKey(request.player_id)
        gs1 == EnsureHand(gs, player_id)
        gang_type == GangTypeOf(request.operation_type)
        melds == gs1.player_hands[player_id].melds
        found == IF request.operation_type = "jiagang"
                 THEN FirstPengOf(melds, request.tile) ELSE 0
        meld == [id |-> uuid,
                 type |-> "gang",
                 tiles |-> <<request.tile, request.tile, request.tile,
                             request.tile>>,
                 exposed |-> (gang_type # "an_gang"),
                 gang_type |-> gang_type,
                 source_player |->
                    IF gang_type = "ming_gang" THEN request.source_player_id
                    ELSE NoPlayer,
                 original_peng_id |-> IF found # 0 THEN melds[found].id ELSE 0]
        kept == IF found # 0 THEN RemoveAt(melds, found) ELSE melds
        body ==
            Outcome(
                [gs1 EXCEPT
                    !.player_hands[player_id].melds = Append(kept, meld),
                    !.actions_history =
                        Append(@, [type |-> "",
                                   action_type |-> "gang_" \o gang_type,
                                   player_id |-> request.player_id,
                                   tiles |-> <<request.tile>>])],
                uuid + 1, TRUE, "gang_ok", TRUE)
    IN  CatchAll(body, "gang_failed")

\* request.game_id and self._game_state.get("game_id") != request.game_id
GameIdMismatch(gs, request) ==
    request.game_id # NoGameId /\ GetGameId(gs) # request.game_id

\* process_operation: the session check, then the dispatch on operation_type
ProcessOperationResult(gs, uuid, request) ==
    LET body ==
            IF GameIdMismatch(gs, request)
            THEN Outcome(gs, uuid, FALSE, "game_id_mismatch", FALSE)
            ELSE CASE request.operation_type = "hand" ->
                        AddTileToHand(gs, uuid, request)
                   [] request.operation_type = "discard" ->
                        HandleDiscard(gs, uuid, request)
                   [] request.operation_type = "peng" ->
                        HandlePeng(gs, uuid, request)
                   [] request.operation_type \in
                            {"gang", "angang", "zhigang", "jiagang"} ->
                        HandleGang(gs, uuid, request)
                   [] OTHER ->
                        Outcome(gs, uuid, FALSE, "unsupported_operation", FALSE)
    IN  CatchAll(body, "error")

----------------------------------------------------------------------------
(* Persistence *)

PlainTypes == {"wan", "tiao", "tong", "zi"}

RangeOf(s) == {s[i] : i \in 1 .. Len(s)}

\* every tile dict held anywhere in the document
TilesIn(gs) ==
    UNION ({RangeOf(gs.discarded_tiles), RangeOf(gs.tile_pool)}
        \cup {RangeOf(gs.player_discarded_tiles[k]) : k \in SeatKeys}
        \cup {RangeOf(gs.player_hands[k].tiles) : k \in HandKeys}
        \cup {RangeOf(gs.int_hands[p].tiles) : p \in Seats}
        \cup UNION {{RangeOf(m.tiles) : m \in RangeOf(gs.player_hands[k].melds)} :
                        k \in SeatKeys}
        \cup {RangeOf(a.tiles) : a \in RangeOf(gs.actions_history)}
        \cup {{a.tile} : a \in RangeOf(gs.last_action)})

\* json.dumps(self._game_state) raises TypeError on a value that is a TileType
\* member (a plain Enum); strings, numbers, lists, dicts and None are written
\* the seat a key of player_hands is the str() of
KeySeat(key) == CHOOSE p \in 0 .. 4 : SeatKey(p) = key

\* json.dumps: the stored text, as the document json.loads makes of it.  An
\* int key is written as its str(); when the dict holds a seat under both,
\* the text has the key twice and the loader keeps the later one, the str
\* key that a handler added after GameState.dict() built the int one
JsonDumps(gs) ==
    [gs EXCEPT
        !.player_hands =
            [k \in HandKeys |->
                IF ~gs.player_hands[k].present /\ k \in SeatKeys
                THEN gs.int_hands[KeySeat(k)]
                ELSE gs.player_hands[k]],
        !.int_hands = [p \in Seats |-> AbsentHand]]

JsonSerializable(gs) == \A t \in TilesIn(gs) : t.type \in PlainTypes

\* a save that leaves a document that is already stored alone
SaveStateFirstWins(gs, stored, store_ok) ==
    IF store_ok /\ JsonSerializable(gs) /\ stored = <<>>
    THEN <<JsonDumps(gs)>> ELSE stored

\* _save_state: dump the whole dict and SET it under the key; a failure of the
\* dump or of the store is swallowed and leaves the stored document as it was
SaveState(gs, stored, store_ok) ==
    IF store_ok /\ JsonSerializable(gs) THEN <<JsonDumps(gs)>> ELSE stored

----------------------------------------------------------------------------
(* Requests and responses *)

NoTile == [type |-> "", value |-> 0]

Request(operation_type, player_id, tile, game_id, source_player_id) ==
    [operation_type |-> operation_type, player_id |-> player_id, tile |-> tile,
     game_id |-> game_id, source_player_id |-> source_player_id]

\* the caller's view of a finished request: op names the entry point and
\* raised tells a (success, message) return from an error raised to the caller
Response(op, player_id, tile, game_id, success, message, raised) ==
    [op |-> op, player_id |-> player_id, tile |-> tile, game_id |-> game_id,
     count |-> 0, success |-> success, message |-> message, raised |-> raised]

NoResponse == Response("none", NoPlayer, NoTile, NoGameId, TRUE, "", FALSE)

----------------------------------------------------------------------------
(* Actions *)

Init ==
    /\ game_state = CreateInitialState(1, 0)
    /\ redis = <<>>
    /\ uuid_next = 2
    /\ response = NoResponse
    /\ served = 0
    /\ hand_tiles = <<>>
    /\ redis_up = TRUE
    /\ other_state = NoProcess

\* two processes that imported the module on an empty store: each holds the
\* initial state its own MahjongGameService() created
InitProcesses ==
    /\ game_state = CreateInitialState(1, 0)
    /\ other_state = CreateInitialState(2, 1)
    /\ redis = <<>>
    /\ uuid_next = 3
    /\ response = NoResponse
    /\ served = 0
    /\ hand_tiles = <<>>
    /\ redis_up = TRUE

\* the next request goes to the other process
RouteToOther ==
    /\ other_state # NoProcess
    /\ game_state' = other_state
    /\ other_state' = game_state
    /\ UNCHANGED <<redis, uuid_next, response, served, hand_tiles, redis_up>>

\* POST /operation and the endpoints that wrap it: process_operation
ProcessOperation(request, store_ok) ==
    LET r == ProcessOperationResult(game_state, uuid_next, request)
    IN  /\ game_state' = r.gs
        /\ uuid_next' = r.uuid
        /\ redis' = IF r.save THEN SaveState(r.gs, redis, store_ok) ELSE redis
        /\ response' = Response(request.operation_type, request.player_id,
                                request.tile, request.game_id,
                                r.success, r.message, r.raised)

\* POST /reset: reset_game
ResetGame(k, store_ok) ==
    LET gs == CreateInitialState(uuid_next, k)
    IN  /\ game_state' = gs
        /\ uuid_next' = uuid_next + 1
        /\ redis' = SaveState(gs, redis, store_ok)
        /\ response' = Response("reset", NoPlayer, NoTile, NoGameId,
                                TRUE, "reset_ok", FALSE)

\* set_game_state_dict on the dict the handler has just changed in place; the
\* handler then returns its success response
SetGameStateDict(gs, resp, store_ok) ==
    /\ game_state' = gs
    /\ redis' = SaveState(gs, redis, store_ok)
    /\ response' = resp
    /\ UNCHANGED uuid_next

\* a handler that ends before it changed anything: a failure response, or an
\* HTTPException raised to the caller
Rejected(resp) ==
    /\ response' = resp
    /\ UNCHANGED <<game_state, redis, uuid_next>>

\* POST /set-test-mode
SetTestMode(enabled, store_ok) ==
    SetGameStateDict(
        [game_state EXCEPT !.keys = @ \cup {"test_mode"}, !.test_mode = enabled],
        Response("set_test_mode", NoPlayer, NoTile, NoGameId, TRUE,
                 "test_mode_set", FALSE),
        store_ok)

\* POST /set-current-player
SetCurrentPlayer(player_id, store_ok) ==
    IF player_id < 0 \/ player_id > 3
    THEN Rejected(Response("set_current_player", player_id, NoTile, NoGameId,
                           FALSE, "player_id_out_of_range", FALSE))
    ELSE SetGameStateDict(
            [game_state EXCEPT !.current_player = player_id],
            Response("set_current_player", player_id, NoTile, NoGameId, TRUE,
                     "current_player_set", FALSE),
            store_ok)

\* a next-player that counts on without wrapping round
NextPlayerUnwrapped(store_ok) ==
    SetGameStateDict(
        [game_state EXCEPT !.current_player = game_state.current_player + 1],
        Response("next_player", NoPlayer, NoTile, NoGameId, TRUE,
                 "next_player_set", FALSE),
        store_ok)

\* POST /next-player
NextPlayer(store_ok) ==
    SetGameStateDict(
        [game_state EXCEPT !.current_player = (game_state.current_player + 1) % 4],
        Response("next_player", NoPlayer, NoTile, NoGameId, TRUE,
                 "next_player_set", FALSE),
        store_ok)

\* a startup that ignores the stored document
CreateAlways(stored, up, id, k) ==
    [gs |-> CreateInitialState(id, k), created |-> TRUE]

\* a value under the key that json.loads cannot parse
Unreadable == [unreadable |-> TRUE]

\* _load_or_create_state: the stored document when GET answers with a text
\* that json.loads parses; a fresh state when the key is missing or when GET
\* or json.loads raises
LoadOrCreateState(stored, up, id, k) ==
    IF up /\ stored # <<>> /\ stored[1] # Unreadable
    THEN [gs |-> stored[1], created |-> FALSE]
    ELSE [gs |-> CreateInitialState(id, k), created |-> TRUE]

\* a new process: game_service = MahjongGameService()
Restart(k) ==
    LET r == LoadOrCreateState(redis, redis_up, uuid_next, k)
    IN  /\ game_state' = r.gs
        /\ uuid_next' = IF r.created THEN uuid_next + 1 ELSE uuid_next
        /\ response' = Response("startup", NoPlayer, NoTile, NoGameId, TRUE,
                                IF r.created THEN "created" ELSE "loaded", FALSE)
        /\ UNCHANGED redis

\* the Redis server goes away or comes back
RedisFlips ==
    /\ redis_up' = ~redis_up
    /\ UNCHANGED <<game_state, redis, uuid_next, response, served, hand_tiles,
                   other_state>>

\* another client of the server leaves bytes that are no JSON under the key
RedisCorrupted ==
    /\ redis_up /\ redis # <<Unreadable>>
    /\ redis' = <<Unreadable>>
    /\ UNCHANGED <<game_state, uuid_next, response, served, hand_tiles, redis_up,
                   other_state>>

\* the hand add-hand-count works on: the seat's, or the one it creates
CountedHand(gs, key) ==
    IF gs.player_hands[key].present THEN gs.player_hands[key]
    ELSE [present |-> TRUE, tiles_null |-> TRUE, tiles |-> <<>>,
          has_count |-> TRUE, tile_count |-> 0, melds |-> <<>>]

\* count > 0: tile_count += count; otherwise max(0, tile_count + count)
NewCount(tile_count, count) ==
    IF count > 0 THEN tile_count + count
    ELSE IF tile_count + count > 0 THEN tile_count + count ELSE 0

\* POST /add-hand-count
AddHandCount(player_id, count, store_ok) ==
    LET key == SeatKey(player_id)
        hand == CountedHand(game_state, key)
        resp(success, message, raised) ==
            [Response("add_hand_count", player_id, NoTile, NoGameId, success,
                      message, raised) EXCEPT !.count = count]
    IN  IF player_id = 0 \/ count = 0
        THEN \* ValueError, turned into HTTP 400
             Rejected(resp(FALSE, "http_400", TRUE))
        ELSE IF ~hand.has_count
        THEN \* hand["tile_count"] raises KeyError, turned into HTTP 400
             Rejected(resp(FALSE, "http_400", TRUE))
        ELSE SetGameStateDict(
                [game_state EXCEPT
                    !.player_hands[key] =
                        [hand EXCEPT !.tile_count = NewCount(@, count)]],
                resp(TRUE, "hand_count_changed", FALSE),
                store_ok)

\* POST /set-game-state: set_game_state(GameState(current_player=...)), the
\* model's dict replaces the document
GameStateDict(current_player) ==
    [keys |-> {"remaining_tiles"},
     game_id |-> NoGameId,
     player_hands |-> [s \in HandKeys |-> AbsentHand],
     int_hands |-> [p \in Seats |-> AbsentHand],
     discarded_tiles |-> <<>>,
     player_discarded_tiles |-> [s \in SeatKeys |-> <<>>],
     actions_history |-> <<>>,
     current_player |-> current_player,
     game_started |-> FALSE,
     last_action |-> <<>>,
     tile_pool |-> <<>>,
     test_mode |-> FALSE]

\* POST /set-game-state with hands for the seats of the request: HandTiles()
\* under int keys
GameStateDictHands(current_player, seats) ==
    [GameStateDict(current_player) EXCEPT
        !.int_hands = [p \in Seats |-> IF p \in seats THEN EmptyHand ELSE AbsentHand]]

SetGameStateHands(current_player, seats, store_ok) ==
    SetGameStateDict(
        GameStateDictHands(current_player, seats),
        Response("set_game_state", NoPlayer, NoTile, NoGameId, TRUE,
                 "game_state_set", FALSE),
        store_ok)

SetGameState(current_player, store_ok) ==
    SetGameStateDict(
        GameStateDict(current_player),
        Response("set_game_state", NoPlayer, NoTile, NoGameId, TRUE,
                 "game_state_set", FALSE),
        store_ok)

----------------------------------------------------------------------------
(* The legacy hand reduction, _reduce_hand_tiles, on a HandTiles object *)

\* while len(hand_tiles) < count: hand_tiles.append(Tile(type=WAN, value=1))
PadTiles(tiles, count) ==
    IF Len(tiles) < count
    THEN tiles \o [i \in 1 .. (count - Len(tiles)) |-> Wan1]
    ELSE tiles

\* for _ in range(count): stop on an empty list; pop the first tile equal to
\* preferred_tile, or the first tile when there is none or no preferred tile
RECURSIVE RemoveTiles(_, _, _)
RemoveTiles(tiles, count, preferred_tile) ==
    IF count = 0 \/ Len(tiles) = 0 THEN tiles
    ELSE LET i == IF preferred_tile # NoTile
                  THEN IndexOf(tiles, preferred_tile) ELSE 0
         IN  RemoveTiles(RemoveAt(tiles, IF i > 0 THEN i ELSE 1),
                         count - 1, preferred_tile)

ReduceHandTiles(tiles, count, preferred_tile) ==
    RemoveTiles(PadTiles(tiles, count), count, preferred_tile)

\* a hand of 13 tiles with two copies of tong-2, as seat 0 holds it when it
\* claims a triplet of tong-2
ThirteenTiles ==
    <<Wan1, Tong3, Tong2, Wan1, Tong3, Tong3, Tong2, Wan1, Wan1, Tong3, Wan1,
      Tong3, Wan1>>

\* the tiles lists a reduction is given
HandTilesInputs ==
    UNION {[1 .. n -> {Tong2, Wan1}] : n \in 0 .. MaxHandTiles}
        \cup {ThirteenTiles}

\* the service with a HandTiles object holding any of these lists
InitReduce ==
    /\ game_state = CreateInitialState(1, 0)
    /\ redis = <<>>
    /\ uuid_next = 2
    /\ response = NoResponse
    /\ served = 0
    /\ hand_tiles \in HandTilesInputs
    /\ redis_up = TRUE
    /\ other_state = NoProcess

\* a call of _reduce_hand_tiles(player_id, count, preferred_tile)
ReduceHandTilesCall(count, preferred_tile) ==
    /\ hand_tiles' = ReduceHandTiles(hand_tiles, count, preferred_tile)
    /\ response' = [Response("reduce", NoPlayer, preferred_tile, NoGameId,
                             TRUE, "reduced", FALSE) EXCEPT !.count = count]
    /\ UNCHANGED <<game_state, redis, uuid_next, redis_up, other_state>>

----------------------------------------------------------------------------
(* Tile codes: Tile, Tile.to_code, Tile.from_code, POST /create-tile *)

\* Tile(type=..., value=...) validates: value: int = Field(..., ge=1, le=9)
TileAccepts(m, v) == m \in TileType /\ v >= 1 /\ v <= 9

\* Tile.to_code
ToCode(tile) ==
    CASE tile.type = "WAN" -> tile.value
      [] tile.type = "TIAO" -> tile.value + 10
      [] tile.type = "TONG" -> tile.value + 20
      [] tile.type = "ZI" -> tile.value + 30

\* Tile.from_code: the tile, or ValueError("Invalid tile code")
FromCode(code) ==
    IF 1 <= code /\ code <= 9
    THEN [raised |-> FALSE, tile |-> TileDict("WAN", code)]
    ELSE IF 11 <= code /\ code <= 19
    THEN [raised |-> FALSE, tile |-> TileDict("TIAO", code - 10)]
    ELSE IF 21 <= code /\ code <= 29
    THEN [raised |-> FALSE, tile |-> TileDict("TONG", code - 20)]
    ELSE IF 31 <= code /\ code <= 37
    THEN [raised |-> FALSE, tile |-> TileDict("ZI", code - 30)]
    ELSE [raised |-> TRUE, tile |-> NoTile]

\* POST /create-tile: TileType(tile_type) and Tile(...) raise on a string
\* that names no member and on a value outside 1..9, which the handler
\* turns into HTTP 400; otherwise it answers with the tile and its code
CreateTile(m, v) ==
    /\ response' =
        IF TileAccepts(m, v)
        THEN [Response("create_tile", NoPlayer, TileDict(m, v), NoGameId,
                       TRUE, "tile_created", FALSE)
                EXCEPT !.count = ToCode(TileDict(m, v))]
        ELSE Response("create_tile", NoPlayer, TileDict(m, v), NoGameId,
                      FALSE, "http_400", TRUE)
    /\ UNCHANGED <<game_state, redis, uuid_next>>

\* a call of Tile.from_code(code)
FromCodeCall(code) ==
    LET r == FromCode(code)
    IN  /\ response' =
            [Response("from_code", NoPlayer, r.tile, NoGameId, ~r.raised,
                      IF r.raised THEN "invalid_tile_code" ELSE "tile",
                      r.raised)
                EXCEPT !.count = code]
        /\ UNCHANGED <<game_state, redis, uuid_next>>

----------------------------------------------------------------------------
(* Dealing and drawing: start_game, draw_tile *)

\* the tiles dealt to a seat
DealtTiles == 13

\* a deal that goes round the table tile by tile
DealSeatRoundRobin(n) == n % 4

\* a pop from the front of the pile
PopTileFirst(pool) == [tile |-> pool[1], rest |-> SubSeq(pool, 2, Len(pool))]

\* an append that stores a tile of its own
AppendGenericToHand(gs, key, tile) ==
    [gs EXCEPT !.player_hands[key].tiles =
                    Append(@, [type |-> "wan", value |-> 1])]

\* for player_id in range(4): for _ in range(13): the seat of the n-th tile
\* dealt, n from 0
DealSeat(n) == n \div DealtTiles

\* tile_pool.pop(): the last tile of the list
PopTile(pool) ==
    [tile |-> pool[Len(pool)], rest |-> SubSeq(pool, 1, Len(pool) - 1)]

\* player_hands[str(player_id)]["tiles"].append(tile)
AppendToHand(gs, key, tile) ==
    [gs EXCEPT !.player_hands[key].tiles = Append(@, tile)]

\* whether player_hands[key]["tiles"].append raises: no such key, or None
NoTilesList(gs, key) ==
    ~gs.player_hands[key].present \/ gs.player_hands[key].tiles_null

\* the deal loop of start_game from its n-th tile on; the pile is popped
\* before the hand is looked up
RECURSIVE DealTiles(_, _, _)
DealTiles(gs, uuid, n) ==
    IF n = 4 * DealtTiles
    THEN Outcome([gs EXCEPT !.game_started = TRUE], uuid, TRUE, "game_started", TRUE)
    ELSE IF gs.tile_pool = <<>>
    THEN Outcome(gs, uuid, FALSE, "pool_short", FALSE)
    ELSE LET popped == PopTile(gs.tile_pool)
             gs1 == [gs EXCEPT !.tile_pool = popped.rest]
             key == SeatKey(DealSeat(n))
         IN  IF NoTilesList(gs1, key) THEN Raise(gs1, uuid)
             ELSE DealTiles(AppendToHand(gs1, key, popped.tile), uuid, n + 1)

\* start_game
StartGameResult(gs, uuid) ==
    LET body ==
            IF "game_started" \notin gs.keys THEN Raise(gs, uuid)
            ELSE IF gs.game_started
            THEN Outcome(gs, uuid, FALSE, "already_started", FALSE)
            ELSE DealTiles(gs, uuid, 0)
    IN  CatchAll(body, "start_failed")

StartGame(store_ok) ==
    LET r == StartGameResult(game_state, uuid_next)
    IN  /\ game_state' = r.gs
        /\ redis' = IF r.save THEN SaveState(r.gs, redis, store_ok) ELSE redis
        /\ response' = Response("start_game", NoPlayer, NoTile, NoGameId,
                                r.success, r.message, r.raised)
        /\ UNCHANGED uuid_next

\* draw_tile(player_id)
DrawTileResult(gs, uuid, player_id) ==
    LET key == SeatKey(player_id)
        body ==
            IF "game_started" \notin gs.keys THEN Raise(gs, uuid)
            ELSE IF ~gs.game_started
            THEN Outcome(gs, uuid, FALSE, "not_started", FALSE)
            ELSE IF gs.tile_pool = <<>>
            THEN Outcome(gs, uuid, FALSE, "pool_empty", FALSE)
            ELSE LET popped == PopTile(gs.tile_pool)
                     gs1 == [gs EXCEPT !.tile_pool = popped.rest]
                 IN  IF NoTilesList(gs1, key) THEN Raise(gs1, uuid)
                     ELSE Outcome(AppendToHand(gs1, key, popped.tile), uuid,
                                  TRUE, "tile_drawn", TRUE)
    IN  CatchAll(body, "draw_failed")

DrawTile(player_id, store_ok) ==
    LET r == DrawTileResult(game_state, uuid_next, player_id)
    IN  /\ game_state' = r.gs
        /\ redis' = IF r.save THEN SaveState(r.gs, redis, store_ok) ELSE redis
        /\ response' =
                Response("draw_tile", player_id,
                         IF r.success
                         THEN PopTile(game_state.tile_pool).tile ELSE NoTile,
                         NoGameId, r.success, r.message, r.raised)
        /\ UNCHANGED uuid_next

----------------------------------------------------------------------------
(* Specifications *)

\* one more request is served by an endpoint, up to the horizon max; no
\* endpoint calls the legacy methods, so their HandTiles objects stay as they are
Serve(max) ==
    /\ served < max /\ served' = served + 1
    /\ UNCHANGED <<hand_tiles, redis_up, other_state>>

\* the request served after exactly n others
ServeStep(n) == served = n /\ Serve(n + 1)

\* Spec: the play of hand tiles, discards and hand counts, from construction,
\* reset or a replaced document
Next ==
    \/ \E p \in {0, 1}, t \in {Tong2, Tong3} :
            /\ Serve(MaxServed)
            /\ ProcessOperation(Request("hand", p, t, NoGameId, NoPlayer), TRUE)
    \/ \E p \in Seats, t \in {Tong2, Tong3} :
            /\ Serve(MaxServed)
            /\ ProcessOperation(Request("discard", p, t, NoGameId, NoPlayer), TRUE)
    \/ \E p \in {0, 1}, count \in {-14, 0, 13} :
            Serve(MaxServed) /\ AddHandCount(p, count, TRUE)
    \/ \E k \in 0 .. MaxShuffle : Serve(MaxServed) /\ ResetGame(k, TRUE)
    \/ Serve(MaxServed) /\ SetGameState(0, TRUE)

Spec == Init /\ [][Next]_vars

\* TurnSpec: discards by every seat, with test mode switched on and off and
\* the document replaced by one that carries no test-mode flag
NextTurn ==
    \/ \E p \in Seats :
            /\ Serve(MaxTurnServed)
            /\ ProcessOperation(Request("discard", p, Tong3, NoGameId, NoPlayer), TRUE)
    \/ \E enabled \in BOOLEAN : Serve(MaxTurnServed) /\ SetTestMode(enabled, TRUE)
    \/ Serve(MaxTurnServed) /\ SetGameState(0, TRUE)

TurnSpec == Init /\ [][NextTurn]_vars

\* SessionSpec: every kind of operation, with no session id, the first
\* session's id and the second's, across resets and replaced documents
SessionOps == {"hand", "discard", "peng", "angang", "jiagang", "hu"}

NextSession ==
    \/ \E op \in SessionOps, p \in {0, 1}, g \in {NoGameId, 1, 2} :
            /\ Serve(MaxSessionServed)
            /\ ProcessOperation(Request(op, p, Tong2, g, NoPlayer), TRUE)
    \/ \E k \in 0 .. MaxShuffle : Serve(MaxSessionServed) /\ ResetGame(k, TRUE)
    \/ Serve(MaxSessionServed) /\ SetGameState(0, TRUE)
    \/ Serve(MaxSessionServed) /\ AddHandCount(1, 13, TRUE)

SessionSpec == Init /\ [][NextSession]_vars

\* ScenarioSpec: MaxPrefix requests of any play, then the end-to-end scenario:
\* reset, seat 1's count + 13, seat 0 gets circles-2, seat 0 discards circles-3
NextScenario ==
    \/ \E p \in {0, 1}, t \in {Tong2, Tong3} :
            /\ Serve(MaxPrefix)
            /\ ProcessOperation(Request("hand", p, t, NoGameId, NoPlayer), TRUE)
    \/ \E p \in Seats, t \in {Tong2, Tong3} :
            /\ Serve(MaxPrefix)
            /\ ProcessOperation(Request("discard", p, t, NoGameId, NoPlayer), TRUE)
    \/ \E p \in {0, 1}, count \in {-14, 0, 13} :
            Serve(MaxPrefix) /\ AddHandCount(p, count, TRUE)
    \/ Serve(MaxPrefix) /\ SetGameState(0, TRUE)
    \/ \E enabled \in BOOLEAN : Serve(MaxPrefix) /\ SetTestMode(enabled, TRUE)
    \/ \E k \in 0 .. MaxShuffle :
            ServeStep(MaxPrefix) /\ ResetGame(k, TRUE)
    \/ /\ ServeStep(MaxPrefix + 1)
       /\ AddHandCount(1, 13, TRUE)
    \/ /\ ServeStep(MaxPrefix + 2)
       /\ ProcessOperation(Request("hand", 0, Tong2, NoGameId, NoPlayer), TRUE)
    \/ /\ ServeStep(MaxPrefix + 3)
       /\ ProcessOperation(Request("discard", 0, Tong3, NoGameId, NoPlayer), TRUE)

ScenarioSpec == Init /\ [][NextScenario]_vars

\* MeldSpec: triplet claims and the three kinds of kong by seats 0 and 1, on
\* hands that hold known tiles (seat 0) or a count (seat 1)
MeldOps == {"peng", "angang", "zhigang", "jiagang"}

\* the seat a claimed tile comes from; a promoted kong names none
MeldSource(op) == IF op = "jiagang" THEN NoPlayer ELSE 2

NextMeld ==
    \/ \E op \in MeldOps, p \in {0, 1} :
            /\ Serve(MaxMeldServed)
            /\ ProcessOperation(Request(op, p, Tong2, NoGameId, MeldSource(op)), TRUE)
    \/ /\ Serve(MaxMeldServed)
       /\ ProcessOperation(Request("hand", 0, Tong2, NoGameId, NoPlayer), TRUE)
    \/ Serve(MaxMeldServed) /\ AddHandCount(1, 13, TRUE)
    \/ Serve(MaxMeldServed) /\ SetGameState(0, TRUE)

MeldSpec == Init /\ [][NextMeld]_vars

\* ReduceSpec: hand reductions by 1 to 4 tiles of lists of up to MaxHandTiles
\* tiles, and the signed hand-count changes of seat 1
NextReduce ==
    \/ \E count \in 1 .. 4, preferred_tile \in {NoTile, Tong2, Wan1} :
            /\ served < MaxReduceServed /\ served' = served + 1
            /\ ReduceHandTilesCall(count, preferred_tile)
    \/ \E count \in {-14, 13} : Serve(MaxReduceServed) /\ AddHandCount(1, count, TRUE)
    \/ Serve(MaxReduceServed) /\ SetGameState(0, TRUE)

ReduceSpec == InitReduce /\ [][NextReduce]_vars

\* CodecSpec: tiles of every type, one string that names no type, values
\* 0..10, and codes -2..40
TileTypeInputs == TileType \cup {"HUA"}
TileValueInputs == 0 .. 10
TileCodeInputs == -2 .. 40

NextCodec ==
    \/ \E m \in TileTypeInputs, v \in TileValueInputs :
            Serve(MaxCodecServed) /\ CreateTile(m, v)
    \/ \E code \in TileCodeInputs :
            Serve(MaxCodecServed) /\ FromCodeCall(code)

CodecSpec == Init /\ [][NextCodec]_vars

\* PlayerSpec: from construction or reset, discards by every seat with test
\* mode on, off or without the flag (after set-game-state), set-current-player
\* with seats inside and outside 0..3, and next-player
NextPlayerStep ==
    \/ \E p \in Seats :
            /\ Serve(MaxPlayerServed)
            /\ ProcessOperation(Request("discard", p, Tong3, NoGameId, NoPlayer), TRUE)
    \/ \E p \in {-1, 2, 4} : Serve(MaxPlayerServed) /\ SetCurrentPlayer(p, TRUE)
    \/ Serve(MaxPlayerServed) /\ NextPlayer(TRUE)
    \/ Serve(MaxPlayerServed) /\ SetTestMode(FALSE, TRUE)
    \/ Serve(MaxPlayerServed) /\ SetGameState(0, TRUE)
    \/ Serve(MaxPlayerServed) /\ ResetGame(0, TRUE)

PlayerSpec == Init /\ [][NextPlayerStep]_vars

\* SeatSpec: the requests that add keys to, or replace, the hands map and the
\* per-seat discard map
NextSeat ==
    \/ \E p \in Seats :
            /\ Serve(MaxSeatServed)
            /\ ProcessOperation(Request("hand", p, Tong2, NoGameId, NoPlayer), TRUE)
    \/ \E p \in Seats :
            /\ Serve(MaxSeatServed)
            /\ ProcessOperation(Request("discard", p, Tong3, NoGameId, NoPlayer), TRUE)
    \/ \E p \in {1, 4} : Serve(MaxSeatServed) /\ AddHandCount(p, 1, TRUE)
    \/ Serve(MaxSeatServed) /\ SetGameState(0, TRUE)
    \/ Serve(MaxSeatServed) /\ ResetGame(0, TRUE)

SeatSpec == Init /\ [][NextSeat]_vars

\* StoreSpec: requests that end in _save_state, restarts of the process, and
\* a Redis server that goes away, comes back, or holds an unreadable value
NextStore ==
    \/ \E op \in {"hand", "discard", "peng"} :
            /\ Serve(MaxStoreServed)
            /\ ProcessOperation(Request(op, 0, Tong2, NoGameId, NoPlayer), redis_up)
    \/ Serve(MaxStoreServed) /\ AddHandCount(1, 1, redis_up)
    \/ Serve(MaxStoreServed) /\ ResetGame(0, redis_up)
    \/ Serve(MaxStoreServed) /\ SetGameState(0, redis_up)
    \/ Serve(MaxStoreServed) /\ SetGameStateHands(0, {0}, redis_up)
    \/ Serve(MaxStoreServed) /\ Restart(0)
    \/ RedisFlips
    \/ RedisCorrupted

StoreSpec == Init /\ [][NextStore]_vars

\* ProcessSpec: two processes of the service on one Redis key, and requests
\* whose documents json.dumps stores
NextProcess ==
    \/ \E p \in {1, 2} : Serve(MaxProcessServed) /\ SetCurrentPlayer(p, TRUE)
    \/ Serve(MaxProcessServed) /\ NextPlayer(TRUE)
    \/ Serve(MaxProcessServed) /\ SetTestMode(FALSE, TRUE)
    \/ Serve(MaxProcessServed) /\ SetGameState(0, TRUE)
    \/ Serve(MaxProcessServed) /\ AddHandCount(1, 1, TRUE)
    \/ Serve(MaxProcessServed) /\ ResetGame(0, TRUE)
    \/ RouteToOther

ProcessSpec == InitProcesses /\ [][NextProcess]_vars

\* KongSpec: triplet claims and kongs under each of the four operation names,
\* with and without a claimed-from seat in the request
KongOps == {"gang", "angang", "zhigang", "jiagang"}

NextKong ==
    \/ \E p \in {0, 1}, source \in {NoPlayer, 2} :
            /\ Serve(MaxKongServed)
            /\ ProcessOperation(Request("peng", p, Tong2, NoGameId, source), TRUE)
    \/ \E op \in KongOps, p \in {0, 1}, source \in {NoPlayer, 2} :
            /\ Serve(MaxKongServed)
            /\ ProcessOperation(Request(op, p, Tong2, NoGameId, source), TRUE)
    \/ Serve(MaxKongServed) /\ ResetGame(0, TRUE)

KongSpec == Init /\ [][NextKong]_vars

\* DealSpec: resets, deals and draws.  The first MaxDealPrefix requests are
\* any of them, by seat 0 or 3; from then on the seats draw in turn, until the
\* pile is empty and beyond
NextDeal ==
    \/ \E k \in 0 .. MaxShuffle :
            served < MaxDealPrefix /\ Serve(MaxDealServed) /\ ResetGame(k, TRUE)
    \/ served <= MaxDealPrefix /\ Serve(MaxDealServed) /\ StartGame(TRUE)
    \/ \E p \in {0, 3} :
            served < MaxDealPrefix /\ Serve(MaxDealServed) /\ DrawTile(p, TRUE)
    \/ /\ served >= MaxDealPrefix
       /\ Serve(MaxDealServed)
       /\ DrawTile(served % 4, TRUE)

DealSpec == Init /\ [][NextDeal]_vars

\* PileSpec: discards of two tiles by every seat through process_operation,
\* in and out of test mode, and resets
NextPile ==
    \/ \E p \in Seats, t \in {Tong2, Tong3} :
            /\ Serve(MaxPileServed)
            /\ ProcessOperation(Request("discard", p, t, NoGameId, NoPlayer), TRUE)
    \/ Serve(MaxPileServed) /\ SetTestMode(FALSE, TRUE)
    \/ Serve(MaxPileServed) /\ ResetGame(0, TRUE)

PileSpec == Init /\ [][NextPile]_vars

----------------------------------------------------------------------------
(* What the claims are stated in *)

\* this step served a request (response' is that request's response)
Served == served' = served + 1

\* the document's test-mode flag is present and set
TestModeOn == "test_mode" \in game_state.keys /\ game_state.test_mode

\* the live session's id, NoGameId when the document carries none
LiveGameId ==
    IF "game_id" \in game_state.keys THEN game_state.game_id ELSE NoGameId

\* this step served a discard request
DiscardServed == Served /\ response'.op = "discard"

\* hand.get("tile_count", 0): the count a client of the document reads
HandTileCount(hand) == IF hand.has_count THEN hand.tile_count ELSE 0

----------------------------------------------------------------------------
(* Turn order *)

\* C1: with test mode off, a successful discard is one by the current seat p
\* and it sets current_player to (p + 1) mod 4, so repeated discards from
\* current_player = 0 go through the seats 0, 1, 2, 3, 0, 1, ...
C1_TurnRotation ==
    [][(DiscardServed /\ response'.success /\ ~TestModeOn)
        => /\ response'.player_id = game_state.current_player
           /\ game_state'.current_player = (game_state.current_player + 1) % 4]_vars

\* five discards with test mode off: seats 0, 1, 2, 3 and 0 again, seat 1 next
C1_Witness ==
    /\ ~TestModeOn
    /\ Len(game_state.discarded_tiles) = 5
    /\ Len(game_state.player_discarded_tiles["0"]) = 2
    /\ \A k \in {"1", "2", "3"} : Len(game_state.player_discarded_tiles[k]) = 1
    /\ game_state.current_player = 1
    /\ response.op = "discard" /\ response.player_id = 0 /\ response.success

\* C2: with test mode on, a discard by any seat is never refused for the turn,
\* whatever current_player is (it succeeds whenever the document holds the
\* per-seat discard piles), and it leaves current_player unchanged
C2_TestModeDiscard ==
    [][(DiscardServed /\ TestModeOn)
        => /\ response'.message # "not_your_turn"
           /\ ("player_discarded_tiles" \in game_state.keys => response'.success)
           /\ game_state'.current_player = game_state.current_player]_vars

\* test mode on: seat 3 has discarded while current_player is 0 and still is
C2_Witness ==
    /\ TestModeOn
    /\ response.op = "discard" /\ response.success /\ response.player_id = 3
    /\ game_state.current_player = 0
    /\ Len(game_state.player_discarded_tiles["3"]) > 0

\* C3: with test mode off, a discard by a seat other than current_player fails
\* as not-your-turn and changes nothing: the piles, current_player, last_action,
\* the action log, the rest of the document and the stored document keep their
\* values
C3_NotYourTurn ==
    [][(DiscardServed /\ ~TestModeOn
            /\ response'.player_id # game_state.current_player)
        => /\ ~response'.success /\ ~response'.raised
           /\ response'.message = "not_your_turn"
           /\ game_state' = game_state
           /\ redis' = redis]_vars

\* a refused discard in a game that already holds one
C3_Witness ==
    /\ response.op = "discard" /\ response.message = "not_your_turn"
    /\ ~response.success
    /\ Len(game_state.discarded_tiles) > 0
    /\ ~TestModeOn

----------------------------------------------------------------------------
(* The session check and the fault boundary *)

\* C4: for every kind of operation, a request whose game_id is set and differs
\* from the live session's id fails and changes nothing; a request with no
\* game_id, or with the live one, is never refused for its session
C4_SessionMismatch ==
    [][(Served /\ response'.op \in SessionOps)
        => IF response'.game_id # NoGameId /\ response'.game_id # LiveGameId
           THEN /\ ~response'.success /\ ~response'.raised
                /\ response'.message = "game_id_mismatch"
                /\ game_state' = game_state
                /\ redis' = redis
                /\ uuid_next' = uuid_next
           ELSE response'.message # "game_id_mismatch"]_vars

\* after a reset, a triplet claim that still carries the first session's id
C4_Witness ==
    /\ game_state.game_id = 2 /\ "game_id" \in game_state.keys
    /\ response.op = "peng" /\ response.game_id = 1
    /\ response.message = "game_id_mismatch"

\* C5: process_operation returns a (success, message) pair for every request
\* in every reachable state: a fault inside a handler and an unsupported kind
\* give (false, message), and no error is raised to the caller
C5_FaultBoundary ==
    response.op \in SessionOps
        => /\ ~response.raised
           /\ response.success \in BOOLEAN
           /\ response.message \in
                {"hand_ok", "discard_ok", "peng_ok", "gang_ok", "hand_failed",
                 "discard_failed", "not_your_turn", "game_id_mismatch",
                 "unsupported_operation"}
           /\ response.success <=>
                response.message \in {"hand_ok", "discard_ok", "peng_ok", "gang_ok"}
           /\ response.op = "hu" => response.message \in
                {"unsupported_operation", "game_id_mismatch"}

\* a fault inside a handler: a tile added to a hand whose tile list is null
C5_Witness ==
    /\ response.op = "hand" /\ response.message = "hand_failed"
    /\ ~response.success
    /\ game_state.player_hands["1"].tiles_null

----------------------------------------------------------------------------
(* The discard piles and the hands *)

\* the seat key of the request this step served
ServedSeat == SeatKey(response'.player_id)

\* C6: every successful discard of tile t by seat s appends t at the end of
\* the global discard pile and at the end of seat s's own discard pile, and
\* changes no other seat's discard pile
C6_DiscardAppends ==
    [][(DiscardServed /\ response'.success)
        => /\ game_state'.discarded_tiles =
                Append(game_state.discarded_tiles, response'.tile)
           /\ game_state'.player_discarded_tiles[ServedSeat] =
                Append(game_state.player_discarded_tiles[ServedSeat],
                       response'.tile)
           /\ \A k \in SeatKeys \ {ServedSeat} :
                game_state'.player_discarded_tiles[k] =
                    game_state.player_discarded_tiles[k]]_vars

\* seat 1 discarded tong-3 after seat 0 discarded tong-2
C6_Witness ==
    /\ response.op = "discard" /\ response.success /\ response.player_id = 1
    /\ game_state.discarded_tiles = <<Tong2, Tong3>>
    /\ game_state.player_discarded_tiles["0"] = <<Tong2>>
    /\ game_state.player_discarded_tiles["1"] = <<Tong3>>

\* the known tile lists of the four seats
KnownTiles(gs) == [k \in SeatKeys |-> gs.player_hands[k].tiles]

\* C7: a successful discard by seat 0 of a tile present in seat 0's known
\* tile list removes the first occurrence of that tile from the list, which
\* gets one shorter; a discard by seat 1, 2 or 3 modifies no known tile list
C7_DiscardRemovesFromHand ==
    [][(DiscardServed /\ response'.success)
        => LET tiles == game_state.player_hands["0"].tiles
               i == IndexOf(tiles, response'.tile)
           IN  /\ (response'.player_id = 0 /\ i > 0)
                    => /\ game_state'.player_hands["0"].tiles = RemoveAt(tiles, i)
                       /\ Len(game_state'.player_hands["0"].tiles) = Len(tiles) - 1
               /\ response'.player_id # 0
                    => KnownTiles(game_state') = KnownTiles(game_state)]_vars

\* seat 0 discarded the tong-2 of its list, and the list still holds it
C7_Witness ==
    /\ response.op = "discard" /\ response.success /\ response.player_id = 0
    /\ response.tile = Tong2
    /\ game_state.player_discarded_tiles["0"] = <<Tong2>>
    /\ game_state.player_hands["0"].tiles = <<Tong2>>

\* C8: a discard of a tile that is not in seat 0's known list still succeeds
\* (the seat being allowed to discard), leaves the known list as it was, and
\* leaves seat 0's tile_count equal to the length of its known list
C8_DiscardUnknownTile ==
    [][(DiscardServed /\ response'.player_id = 0
            /\ ~NotYourTurn(game_state, response')
            /\ "player_discarded_tiles" \in game_state.keys
            /\ ~game_state.player_hands["0"].tiles_null
            /\ IndexOf(game_state.player_hands["0"].tiles, response'.tile) = 0)
        => /\ response'.success
           /\ game_state'.player_hands["0"].tiles =
                game_state.player_hands["0"].tiles
           /\ HandTileCount(game_state'.player_hands["0"]) =
                Len(game_state'.player_hands["0"].tiles)]_vars


\* seat 0 discarded tong-3 while its list holds only tong-2: the list has one
\* tile and the hand carries no tile_count
C8_Witness ==
    /\ response.op = "discard" /\ response.success /\ response.player_id = 0
    /\ response.tile = Tong3
    /\ game_state.player_hands["0"].tiles = <<Tong2>>
    /\ HandTileCount(game_state.player_hands["0"]) = 0

----------------------------------------------------------------------------
(* Count-only hands *)

\* C10: from a freshly reset state, changing the hand count of seat 1, 2 or 3
\* by +N succeeds and yields a hand for that seat whose tiles field is null
\* and whose tile_count is N
C10_CountAfterReset ==
    [][(Served /\ response.op = "reset" /\ response'.op = "add_hand_count"
            /\ response'.player_id \in 1 .. 3 /\ response'.count > 0)
        => LET hand == game_state'.player_hands[ServedSeat]
           IN  /\ response'.success
               /\ hand.tiles_null
               /\ HandTileCount(hand) = response'.count]_vars

\* a reset state in which +13 for seat 1 was answered with HTTP 400
C10_Witness ==
    /\ \E k \in 0 .. MaxShuffle :
            game_state = CreateInitialState(game_state.game_id, k)
    /\ response.op = "add_hand_count" /\ response.player_id = 1
    /\ response.count = 13
    /\ ~response.success /\ response.message = "http_400"
    /\ ~game_state.player_hands["1"].tiles_null

\* C9: the scenario reset, seat 1's count set to 13, tong-2 added to seat 0,
\* tong-3 discarded by seat 0: every step succeeds, and afterwards seat 0's
\* discard pile and the global discard pile are [tong-3], seat 0's known tiles
\* are still [tong-2], and seat 1's count is 13
C9_Scenario ==
    /\ (served > MaxPrefix /\ served <= MaxPrefix + 4) => response.success
    /\ served = MaxPrefix + 4
        => /\ game_state.player_discarded_tiles["0"] = <<Tong3>>
           /\ game_state.discarded_tiles = <<Tong3>>
           /\ game_state.player_hands["0"].tiles = <<Tong2>>
           /\ HandTileCount(game_state.player_hands["1"]) = 13

\* the scenario's second step, seat 1's count, answered with HTTP 400
C9_Witness ==
    /\ served = MaxPrefix + 2
    /\ response.op = "add_hand_count" /\ response.player_id = 1
    /\ ~response.success

----------------------------------------------------------------------------
(* Melds *)

\* the size of a seat's hand: the length of the known list for seat 0, the
\* tile_count for the count-only seats 1, 2 and 3
HandSize(gs, p) ==
    LET hand == gs.player_hands[SeatKey(p)]
    IN  IF p = 0 THEN Len(hand.tiles) ELSE HandTileCount(hand)

\* a size after n tiles are taken from it, never below 0
Max0(n) == IF n > 0 THEN n ELSE 0

\* the melds of the seat whose request this step served, before and after
MeldsBefore == game_state.player_hands[ServedSeat].melds
MeldsAfter == game_state'.player_hands[ServedSeat].melds

\* a meld made of n copies of tile
MeldOf(meld, n, tile) ==
    /\ Len(meld.tiles) = n
    /\ \A i \in 1 .. n : meld.tiles[i] = tile

\* this step served a successful request of kind op
MeldServed(op) == Served /\ response'.op = op /\ response'.success

\* the step took n tiles from the hand of the seat it served
HandReducedBy(n) ==
    HandSize(game_state', response'.player_id) =
        Max0(HandSize(game_state, response'.player_id) - n)

\* C11: a triplet claim by seat s appends one exposed 3-tile meld of the
\* claimed tile to s's melds and reduces s's hand size by 2 when s = 0 and by
\* 3 when s is 1, 2 or 3
C11_PengReducesHand ==
    [][MeldServed("peng")
        => /\ Len(MeldsAfter) = Len(MeldsBefore) + 1
           /\ SubSeq(MeldsAfter, 1, Len(MeldsBefore)) = MeldsBefore
           /\ LET meld == MeldsAfter[Len(MeldsAfter)]
              IN  /\ meld.type = "peng" /\ meld.exposed
                  /\ MeldOf(meld, 3, response'.tile)
           /\ HandReducedBy(IF response'.player_id = 0 THEN 2 ELSE 3)]_vars

\* seat 1 holds a count of 13 and a triplet it has just claimed
C11_Witness ==
    /\ response.op = "peng" /\ response.success /\ response.player_id = 1
    /\ HandSize(game_state, 1) = 13
    /\ Len(game_state.player_hands["1"].melds) = 1
    /\ game_state.player_hands["1"].melds[1].type = "peng"

\* C12: a concealed kong by any seat appends one 4-tile meld that is not
\* exposed and has the kong variant an_gang, and reduces that seat's hand size
\* by 4, for seat 0 as for the others
C12_ConcealedKong ==
    [][MeldServed("angang")
        => /\ Len(MeldsAfter) = Len(MeldsBefore) + 1
           /\ SubSeq(MeldsAfter, 1, Len(MeldsBefore)) = MeldsBefore
           /\ LET meld == MeldsAfter[Len(MeldsAfter)]
              IN  /\ meld.type = "gang" /\ ~meld.exposed
                  /\ meld.gang_type = "an_gang"
                  /\ MeldOf(meld, 4, response'.tile)
           /\ HandReducedBy(4)]_vars

\* seat 1 holds a count of 13 and a concealed kong it has just declared
C12_Witness ==
    /\ response.op = "angang" /\ response.success /\ response.player_id = 1
    /\ HandSize(game_state, 1) = 13
    /\ Len(game_state.player_hands["1"].melds) = 1
    /\ game_state.player_hands["1"].melds[1].gang_type = "an_gang"
    /\ ~game_state.player_hands["1"].melds[1].exposed

\* C13: a claimed kong by seat s appends one exposed 4-tile meld with the kong
\* variant ming_gang that records the seat the tile was claimed from, and
\* reduces s's hand size by 3 when s = 0 and by 4 when s is 1, 2 or 3
C13_ClaimedKong ==
    [][MeldServed("zhigang")
        => /\ Len(MeldsAfter) = Len(MeldsBefore) + 1
           /\ SubSeq(MeldsAfter, 1, Len(MeldsBefore)) = MeldsBefore
           /\ LET meld == MeldsAfter[Len(MeldsAfter)]
              IN  /\ meld.type = "gang" /\ meld.exposed
                  /\ meld.gang_type = "ming_gang"
                  /\ meld.source_player = MeldSource("zhigang")
                  /\ MeldOf(meld, 4, response'.tile)
           /\ HandReducedBy(IF response'.player_id = 0 THEN 3 ELSE 4)]_vars

\* seat 0 holds two known tiles and a claimed kong it has just declared
C13_Witness ==
    /\ response.op = "zhigang" /\ response.success /\ response.player_id = 0
    /\ HandSize(game_state, 0) = 2
    /\ Len(game_state.player_hands["0"].melds) = 1
    /\ game_state.player_hands["0"].melds[1].gang_type = "ming_gang"
    /\ game_state.player_hands["0"].melds[1].source_player = 2

\* C14: a promoted kong of tile T by a seat that owns a triplet of T removes
\* the first such triplet, appends one exposed kong of T whose
\* original_peng_id is the removed triplet's id, leaves the number of melds
\* unchanged and the other melds untouched, and reduces the hand size by 1
C14_PromotedKong ==
    [][(MeldServed("jiagang") /\ FirstPengOf(MeldsBefore, response'.tile) # 0)
        => LET found == FirstPengOf(MeldsBefore, response'.tile)
               meld == MeldsAfter[Len(MeldsAfter)]
           IN  /\ Len(MeldsAfter) = Len(MeldsBefore)
               /\ SubSeq(MeldsAfter, 1, Len(MeldsAfter) - 1) =
                    RemoveAt(MeldsBefore, found)
               /\ meld.type = "gang" /\ meld.exposed
               /\ meld.gang_type = "jia_gang"
               /\ meld.original_peng_id = MeldsBefore[found].id
               /\ MeldOf(meld, 4, response'.tile)
               /\ HandReducedBy(1)]_vars

\* seat 1 holds a count of 13 and a kong promoted from the triplet it claimed
C14_Witness ==
    /\ response.op = "jiagang" /\ response.success /\ response.player_id = 1
    /\ HandSize(game_state, 1) = 13
    /\ Len(game_state.player_hands["1"].melds) = 1
    /\ game_state.player_hands["1"].melds[1].gang_type = "jia_gang"
    /\ game_state.player_hands["1"].melds[1].original_peng_id # 0

\* C15: a promoted kong of tile T by a seat that owns no triplet of T, also
\* when another seat owns one, fails and leaves the seat's hand, its melds and
\* the action log unchanged
C15_PromotedKongWithoutTriplet ==
    [][(Served /\ response'.op = "jiagang"
            /\ FirstPengOf(MeldsBefore, response'.tile) = 0)
        => /\ ~response'.success
           /\ game_state'.player_hands[ServedSeat] =
                game_state.player_hands[ServedSeat]
           /\ game_state'.actions_history = game_state.actions_history]_vars

\* seat 0 holds a promoted kong that names no triplet, while seat 1 owns the
\* triplet of that tile
C15_Witness ==
    /\ response.op = "jiagang" /\ response.success /\ response.player_id = 0
    /\ Len(game_state.player_hands["0"].melds) = 1
    /\ game_state.player_hands["0"].melds[1].gang_type = "jia_gang"
    /\ game_state.player_hands["0"].melds[1].original_peng_id = 0
    /\ Len(game_state.player_hands["1"].melds) = 1
    /\ game_state.player_hands["1"].melds[1].type = "peng"

----------------------------------------------------------------------------
(* Hand sizes *)

\* C16: a hand reduction never fails for lack of tiles: a hand of fewer than
\* n tiles is padded and then n tiles are removed, so the resulting size is
\* max(0, size - n); no known-tile list length and no count-only tile_count
\* is negative in any reachable state
C16_ReductionNeverUnderflows ==
    /\ [][(Served /\ response'.op = "reduce")
            => /\ response'.success /\ ~response'.raised
               /\ Len(hand_tiles') = Max0(Len(hand_tiles) - response'.count)]_vars
    /\ [](/\ Len(hand_tiles) >= 0
          /\ \A k \in SeatKeys :
                /\ Len(game_state.player_hands[k].tiles) >= 0
                /\ game_state.player_hands[k].tile_count >= 0)

\* seat 1's count stands at 0 after 14 were to be taken from it, and a list
\* of fewer than four tiles is empty after four were to be removed
C16_Witness ==
    /\ response.op = "reduce" /\ response.count = 4 /\ response.success
    /\ hand_tiles = <<>>
    /\ served = 3
    /\ game_state.player_hands["1"].has_count
    /\ game_state.player_hands["1"].tile_count = 0

\* C17: for seat 0 the known tile list is present and tile_count equals the
\* length of the known tile list in every reachable state in which the
\* document holds a hand for seat 0, in particular after reset and after each
\* add-hand-tile, discard, triplet claim and kong by seat 0
C17_SelfCountMatchesList ==
    LET hand == game_state.player_hands["0"]
    IN  hand.present
            => /\ ~hand.tiles_null
               /\ HandTileCount(hand) = Len(hand.tiles)

\* two tiles were added to seat 0 one by one: the list holds both and the
\* hand carries no tile_count
C17_Witness ==
    /\ response.op = "hand" /\ response.success /\ response.player_id = 0
    /\ game_state.player_hands["0"].tiles = <<Tong2, Tong3>>
    /\ ~game_state.player_hands["0"].has_count
    /\ HandTileCount(game_state.player_hands["0"]) = 0

\* the seats whose tiles are not known
CountOnlySeats == 1 .. 3

\* C18: for seats 1, 2 and 3 the known tile list is null and only tile_count
\* is tracked: a reset leaves their lists null, and adding a hand tile for
\* such a seat stores no concrete tile and only increases that seat's count
C18_CountOnlySeats ==
    [][/\ (Served /\ response'.op = "reset")
            => \A p \in CountOnlySeats :
                    game_state'.player_hands[SeatKey(p)].tiles_null
       /\ (Served /\ response'.op = "hand" /\ response'.success
                /\ response'.player_id \in CountOnlySeats)
            => /\ game_state'.player_hands[ServedSeat].tiles =
                    game_state.player_hands[ServedSeat].tiles
               /\ HandTileCount(game_state'.player_hands[ServedSeat]) =
                    HandTileCount(game_state.player_hands[ServedSeat]) + 1]_vars

\* seat 1's hand holds the concrete tile that was added for it, and no count
C18_Witness ==
    /\ response.op = "hand" /\ response.success /\ response.player_id = 1
    /\ game_state.player_hands["1"].tiles = <<Tong2>>
    /\ ~game_state.player_hands["1"].tiles_null
    /\ HandTileCount(game_state.player_hands["1"]) = 0

\* C19: the hand-count operation for seats 1, 2, 3 changes that seat's
\* tile_count by the signed delta, to old + delta for delta > 0 and to
\* max(0, old + delta) for delta < 0, and touches no other seat; it is
\* rejected with the state unchanged when the seat is 0 or the delta is 0
C19_SignedHandCount ==
    [][(Served /\ response'.op = "add_hand_count")
        => IF response'.player_id = 0 \/ response'.count = 0
           THEN /\ ~response'.success
                /\ game_state' = game_state /\ redis' = redis
           ELSE LET old == HandTileCount(game_state.player_hands[ServedSeat])
                    new == HandTileCount(game_state'.player_hands[ServedSeat])
                IN  /\ response'.success
                    /\ new = IF response'.count > 0 THEN old + response'.count
                             ELSE Max0(old + response'.count)
                    /\ \A k \in SeatKeys \ {ServedSeat} :
                            game_state'.player_hands[k] =
                                game_state.player_hands[k]]_vars

\* after a hand tile was added for seat 1, + 13 for seat 1 was answered with
\* HTTP 400 and the hand still carries no count
C19_Witness ==
    /\ response.op = "add_hand_count" /\ response.player_id = 1
    /\ response.count = 13 /\ response.message = "http_400"
    /\ game_state.player_hands["1"].tiles = <<Tong2>>
    /\ ~game_state.player_hands["1"].has_count

----------------------------------------------------------------------------
(* Reset *)

\* the draw pile holds four copies of each of the 27 suited tiles
FullPool(pool) ==
    /\ Len(pool) = Len(PoolTypes) * PoolValues * PoolCopies
    /\ \A i \in 1 .. Len(PoolTypes), v \in 1 .. PoolValues :
            Cardinality({j \in 1 .. Len(pool) :
                            pool[j] = [type |-> PoolTypes[i], value |-> v]})
                = PoolCopies

\* C20: a reset from any state produces a state with a session id different
\* from the previous one, four empty hands with no melds, empty global and
\* per-seat discard piles, an empty action log, current_player 0, started
\* false, no last action, and a full 108-tile draw pile
C20_ResetIsFresh ==
    [][(Served /\ response'.op = "reset")
        => /\ response'.success
           /\ "game_id" \in game_state'.keys
           /\ game_state'.game_id # LiveGameId
           /\ \A k \in SeatKeys :
                /\ game_state'.player_hands[k].present
                /\ ~game_state'.player_hands[k].tiles_null
                /\ game_state'.player_hands[k].tiles = <<>>
                /\ game_state'.player_hands[k].melds = <<>>
                /\ game_state'.player_discarded_tiles[k] = <<>>
           /\ "player_discarded_tiles" \in game_state'.keys
           /\ game_state'.discarded_tiles = <<>>
           /\ game_state'.actions_history = <<>>
           /\ game_state'.current_player = 0
           /\ ~game_state'.game_started
           /\ game_state'.last_action = <<>>
           /\ Len(game_state'.tile_pool) = 108
           /\ FullPool(game_state'.tile_pool)]_vars

\* a second reset, of a session in which a meld was made: the ids 2 and 3
\* went to that session and its meld
C20_Witness ==
    /\ response.op = "reset" /\ response.success
    /\ served = 3
    /\ game_state.game_id = 4
    /\ game_state.tile_pool = InitializeTilePool(1)
    /\ \A k \in SeatKeys : game_state.player_hands[k].melds = <<>>
    /\ Len(redis) = 1 /\ redis[1] = game_state

----------------------------------------------------------------------------
(* Tile codes *)

\* the code table: characters r -> r, bamboo r -> 10 + r, circles r -> 20 + r,
\* honor r -> 30 + r
CodeTable ==
    [m \in TileType |->
        CASE m = "WAN" -> 0 [] m = "TIAO" -> 10 [] m = "TONG" -> 20
          [] m = "ZI" -> 30]

\* a tile of the game: a suited tile of rank 1..9 or an honor of rank 1..7
ValidTile(tile) ==
    /\ tile.type \in TileType
    /\ tile.value >= 1
    /\ tile.value <= (IF tile.type = "ZI" THEN 7 ELSE 9)

\* the codes of the valid tiles
ValidCodes == (1 .. 9) \cup (11 .. 19) \cup (21 .. 29) \cup (31 .. 37)

\* C25: for every valid tile, decode(encode(tile)) is the tile, and encode
\* follows the code table
C25_CodecRoundTrip ==
    (response.op = "create_tile" /\ ValidTile(response.tile))
        => /\ response.success
           /\ response.count = CodeTable[response.tile.type] + response.tile.value
           /\ ~FromCode(response.count).raised
           /\ FromCode(response.count).tile = response.tile

\* the honor of rank 7 was created with code 37
C25_Witness ==
    /\ response.op = "create_tile" /\ response.success
    /\ response.tile = TileDict("ZI", 7)
    /\ response.count = 37

\* C26: decode fails with an invalid-code error for every code outside 1..9,
\* 11..19, 21..29 and 31..37, and every tile that the Tile type accepts
\* encodes to a code that decode accepts
C26_DecodeDomain ==
    /\ response.op = "from_code"
        => /\ response.raised <=> response.count \notin ValidCodes
           /\ response.raised => response.message = "invalid_tile_code"
    /\ (response.op = "create_tile" /\ response.success)
        => ~FromCode(response.count).raised

\* the honor of rank 8 was created, with the code 38 that from_code refuses
C26_Witness ==
    /\ response.op = "create_tile" /\ response.success
    /\ response.tile = TileDict("ZI", 8)
    /\ response.count = 38
    /\ FromCode(response.count).raised

----------------------------------------------------------------------------
(* The current player *)

\* C27: current_player is in 0..3 in every state reachable from reset through
\* discards, set-current-player and next-player; set-current-player with a
\* seat outside 0..3 is rejected with the state unchanged, and next-player
\* sets current_player to (current_player + 1) mod 4
C27_CurrentPlayerInRange ==
    /\ [](game_state.current_player \in 0 .. 3)
    /\ [][(Served /\ response'.op = "set_current_player")
            => IF response'.player_id \in 0 .. 3
               THEN /\ response'.success
                    /\ game_state'.current_player = response'.player_id
               ELSE /\ ~response'.success
                    /\ game_state' = game_state
                    /\ redis' = redis]_vars
    /\ [][(Served /\ response'.op = "next_player")
            => /\ response'.success
               /\ game_state'.current_player =
                    (game_state.current_player + 1) % 4]_vars

\* next-player has taken the turn from seat 3 round to seat 0, and seat 4 is
\* then refused
C27_Witness ==
    /\ response.op = "set_current_player" /\ response.player_id = 4
    /\ ~response.success
    /\ game_state.current_player = 0
    /\ served = 4
    /\ Len(redis) = 1 /\ redis[1].current_player = 0

----------------------------------------------------------------------------
(* The seats of the table *)

\* the keys of player_hands
HandSeats(gs) == {k \in HandKeys : gs.player_hands[k].present}

\* the keys of player_discarded_tiles
DiscardSeats(gs) ==
    IF "player_discarded_tiles" \in gs.keys THEN SeatKeys ELSE {}

\* C28: in every state reachable from reset the hands map and the per-seat
\* discard map have exactly the seats 0..3 as keys, and an add-tile addressed
\* to a seat whose hand is absent succeeds and creates the hand
C28_ExactlyFourSeats ==
    /\ [](/\ HandSeats(game_state) = SeatKeys
          /\ DiscardSeats(game_state) = SeatKeys)
    /\ [][(/\ Served
           /\ response'.op = "hand"
           /\ ~game_state.player_hands[ServedSeat].present)
            => /\ response'.success
               /\ game_state'.player_hands[ServedSeat].present]_vars

\* after a reset, add-hand-count for player_id 4 has answered success and the
\* hands map holds the key "4" beside the four seats
C28_Witness ==
    /\ response.op = "add_hand_count" /\ response.player_id = 4
    /\ response.success
    /\ HandSeats(game_state) = HandKeys
    /\ DiscardSeats(game_state) = SeatKeys
    /\ game_state.game_id = 2

----------------------------------------------------------------------------
(* The melds of process_operation against peng_tile and gang_tile *)

\* the number of tiles peng_tile and gang_tile pass to _reduce_hand_tiles
LegacyReduction(op, player_id) ==
    CASE op = "peng" -> IF player_id = 0 THEN 2 ELSE 3
      [] op = "angang" -> 4
      [] op = "zhigang" -> IF player_id = 0 THEN 3 ELSE 4
      [] op = "jiagang" -> 1

\* C29: a triplet claim or kong served by process_operation leaves the seat's
\* hand at the size peng_tile or gang_tile would leave it at: the size before,
\* less 2/3 (triplet), 4 (concealed kong), 3/4 (claimed kong) or 1 (promoted
\* kong), never below 0
C29_MeldsAsLegacy ==
    [][(Served /\ response'.op \in MeldOps /\ response'.success)
        => HandSize(game_state', response'.player_id) =
                Max0(HandSize(game_state, response'.player_id)
                        - LegacyReduction(response'.op, response'.player_id))]_vars

\* seat 0 holds three known tiles and a triplet it has just claimed
C29_Witness ==
    /\ response.op = "peng" /\ response.success /\ response.player_id = 0
    /\ HandSize(game_state, 0) = 3
    /\ Len(game_state.player_hands["0"].melds) = 1
    /\ game_state.player_hands["0"].melds[1].type = "peng"
    /\ served = 4

----------------------------------------------------------------------------
(* The action log *)

\* the requests that are to leave one entry in actions_history
LoggedOps == {"discard", "peng", "angang", "zhigang", "jiagang"}

\* log is the start of longer
IsPrefix(log, longer) ==
    /\ Len(log) <= Len(longer)
    /\ SubSeq(longer, 1, Len(log)) = log

\* C30: each successful discard, triplet claim and kong appends exactly one
\* entry for that seat and tile at the end of actions_history, and no request
\* other than reset and set-state changes or removes an entry already there
C30_ActionLog ==
    /\ [][(Served /\ response'.op \in LoggedOps /\ response'.success)
            => /\ Len(game_state'.actions_history) =
                    Len(game_state.actions_history) + 1
               /\ LET entry ==
                        game_state'.actions_history[Len(game_state'.actions_history)]
                  IN  /\ entry.player_id = response'.player_id
                      /\ entry.tiles = <<response'.tile>>]_vars
    /\ [][(Served /\ response'.op \notin {"reset", "set_game_state"})
            => IsPrefix(game_state.actions_history,
                        game_state'.actions_history)]_vars

\* seat 1 discarded after claiming a triplet: the log still holds the one
\* entry of the claim
C30_Witness ==
    /\ response.op = "discard" /\ response.success /\ response.player_id = 1
    /\ Len(game_state.actions_history) = 1
    /\ game_state.actions_history[1].action_type = "peng"
    /\ Len(game_state.discarded_tiles) = 1
    /\ served = 2

----------------------------------------------------------------------------
(* Persistence *)

\* the requests that end by saving the document when they succeed
SavingOps ==
    {"hand", "discard", "peng", "angang", "zhigang", "jiagang", "reset",
     "set_game_state"}

\* C21: after every mutating operation that returns success while the store
\* is available, the persisted document equals the in-memory game state
C21_PersistedEqualsMemory ==
    [][(Served /\ redis_up /\ response'.op \in SavingOps /\ response'.success)
        => redis' = <<game_state'>>]_vars

\* a tile was added to seat 0's hand with the store available: the request
\* succeeded and the stored document is still the one of the reset before it
C21_Witness ==
    /\ response.op = "hand" /\ response.success /\ redis_up
    /\ Len(game_state.player_hands["0"].tiles) = 1
    /\ game_state.game_id = 2
    /\ Len(redis) = 1 /\ redis[1] # Unreadable
    /\ redis[1].game_id = 2
    /\ redis[1].player_hands["0"].tiles = <<>>

\* C22: when the store write fails during the save at the end of a mutating
\* operation that has changed the in-memory state, the operation is reported
\* as a failure and the stored document is the one from before
C22_StoreFailureReported ==
    [][(/\ Served /\ ~redis_up
        /\ response'.op \in SavingOps
        /\ game_state' # game_state)
        => /\ ~response'.success
           /\ redis' = redis]_vars

\* a reset was served while the store was away: the game in memory is the new
\* one and nothing has ever been stored
C22_Witness ==
    /\ response.op = "reset" /\ ~redis_up
    /\ game_state.game_id = 2
    /\ redis = <<>>
    /\ served = 1

\* C23: a startup returns the stored document when the store answers and the
\* document can be read; when the key is missing, the store is unreachable or
\* the document cannot be deserialized it returns a fresh initial state; it
\* never raises and never writes
C23_LoadOrCreate ==
    [][(Served /\ response'.op = "startup")
        => /\ ~response'.raised
           /\ redis' = redis
           /\ IF redis_up /\ redis # <<>> /\ redis[1] # Unreadable
              THEN game_state' = redis[1]
              ELSE \E k \in 0 .. MaxShuffle :
                        game_state' = CreateInitialState(uuid_next, k)]_vars

\* a process started on a key that held an unreadable value and made a fresh
\* game, after the game of an earlier reset
C23_Witness ==
    /\ response.op = "startup" /\ response.message = "created"
    /\ redis = <<Unreadable>> /\ redis_up
    /\ game_state.game_id = 3
    /\ FullPool(game_state.tile_pool)
    /\ served = 2

\* C24: saving a game state and loading it back yields the same state, with
\* every seat's known-tile list null where it was null and a list where it
\* was a list
C24_SaveLoadRoundTrip ==
    LET stored == SaveState(game_state, <<>>, TRUE)
        loaded == LoadOrCreateState(stored, TRUE, uuid_next, 0)
    IN  /\ ~loaded.created
        /\ loaded.gs = game_state
        /\ \A k \in HandKeys :
                /\ loaded.gs.player_hands[k].present =
                        game_state.player_hands[k].present
                /\ loaded.gs.player_hands[k].tiles_null =
                        game_state.player_hands[k].tiles_null

\* a process started on a stored document in which seat 0 holds an empty list
\* of known tiles and seat 1 a null one, and holds both as they were stored
C24_Witness ==
    /\ response.op = "startup" /\ response.message = "loaded"
    /\ Len(redis) = 1 /\ redis[1] = game_state
    /\ game_state.player_hands["0"].present
    /\ ~game_state.player_hands["0"].tiles_null
    /\ game_state.player_hands["0"].tiles = <<>>
    /\ game_state.player_hands["1"].present
    /\ game_state.player_hands["1"].tiles_null
    /\ served = 3

----------------------------------------------------------------------------
(* Two processes on one key *)

----------------------------------------------------------------------------
(* Which tiles a reduction removes *)

\* the tiles of list at the positions idx, in their order
SubList(list, idx) ==
    [j \in 1 .. Cardinality(idx) |->
        list[CHOOSE i \in idx : Cardinality({x \in idx : x <= i}) = j]]

\* list without the earliest min(k, n) copies of tile, k the number of its
\* copies, and without the first n - min(k, n) of the tiles that are left
WithoutPreferred(list, n, tile) ==
    LET copies == {i \in 1 .. Len(list) : list[i] = tile}
        taken == {i \in copies :
                    Cardinality({x \in copies : x <= i}) <= n}
        left == (1 .. Len(list)) \ taken
        front == {i \in left :
                    Cardinality({x \in left : x <= i}) <= n - Cardinality(taken)}
    IN  SubList(list, left \ front)

----------------------------------------------------------------------------
(* The shape of the melds *)

\* the number of tiles of a meld of this kind
KindSize(type) == IF type = "peng" THEN 3 ELSE 4

\* C33: every meld of every seat holds the number of tiles of its kind, 3 for
\* a triplet and 4 for a kong, all of one suit and rank, and the meld a triplet
\* claim or a kong appends is made of the operation's tile
C33_MeldShape ==
    /\ [](\A k \in SeatKeys :
            \A i \in 1 .. Len(game_state.player_hands[k].melds) :
                LET meld == game_state.player_hands[k].melds[i]
                IN  /\ meld.type \in {"peng", "gang"}
                    /\ MeldOf(meld, KindSize(meld.type), meld.tiles[1]))
    /\ [][(Served /\ response'.op \in KongOps \cup {"peng"} /\ response'.success)
            => LET meld == MeldsAfter[Len(MeldsAfter)]
               IN  /\ meld.type = IF response'.op = "peng" THEN "peng" ELSE "gang"
                   /\ MeldOf(meld, KindSize(meld.type), response'.tile)]_vars

\* seat 1 holds a triplet and two kongs of tong-2
C33_Witness ==
    /\ response.op = "gang" /\ response.success /\ response.player_id = 1
    /\ Len(game_state.player_hands["1"].melds) = 3
    /\ game_state.player_hands["1"].melds[1].type = "peng"
    /\ game_state.player_hands["1"].melds[2].type = "gang"
    /\ Len(game_state.player_hands["1"].melds[3].tiles) = 4

\* C40: the kong variant follows from the operation name alone: angang a
\* concealed kong, zhigang a claimed kong, jiagang a promoted kong, and gang a
\* concealed kong that is not exposed; the claimed-from seat is stored for a
\* claimed kong only, and is null for the others whatever the request holds
C40_KongVariant ==
    [][(Served /\ response'.op \in KongOps /\ response'.success)
        => LET meld == MeldsAfter[Len(MeldsAfter)]
           IN  /\ meld.gang_type =
                    CASE response'.op = "angang" -> "an_gang"
                      [] response'.op = "zhigang" -> "ming_gang"
                      [] response'.op = "jiagang" -> "jia_gang"
                      [] response'.op = "gang" -> "an_gang"
               /\ meld.exposed = (response'.op \in {"zhigang", "jiagang"})
               /\ (response'.op # "zhigang" => meld.source_player = NoPlayer)]_vars

\* a kong under the generic name: concealed, and without the claimed-from
\* seat that the claimed kong before it kept
C40_Witness ==
    /\ response.op = "gang" /\ response.success /\ response.player_id = 0
    /\ Len(game_state.player_hands["0"].melds) = 2
    /\ game_state.player_hands["0"].melds[1].gang_type = "ming_gang"
    /\ game_state.player_hands["0"].melds[1].source_player = 2
    /\ game_state.player_hands["0"].melds[2].gang_type = "an_gang"
    /\ ~game_state.player_hands["0"].melds[2].exposed
    /\ game_state.player_hands["0"].melds[2].source_player = NoPlayer

----------------------------------------------------------------------------
(* The draw pile *)

\* the 27 identities of the suited tiles
SuitedTiles == {[type |-> m, value |-> v] : m \in {"wan", "tiao", "tong"}, v \in 1 .. 9}

\* the number of copies of tile in list
CopiesIn(list, tile) == Cardinality({i \in 1 .. Len(list) : list[i] = tile})

\* C34: a freshly created draw pile holds exactly 108 tiles: 4 copies of each
\* of the 27 identities of characters, bamboo and circles with rank 1..9, and
\* no honor tile
C34_FreshPile ==
    [][(Served /\ (\/ response'.op = "reset"
                   \/ response'.op = "startup" /\ response'.message = "created"))
        => /\ Len(game_state'.tile_pool) = 108
           /\ Cardinality(SuitedTiles) = 27
           /\ \A t \in SuitedTiles : CopiesIn(game_state'.tile_pool, t) = 4
           /\ \A i \in 1 .. Len(game_state'.tile_pool) :
                game_state'.tile_pool[i].type # "zi"]_vars

\* a process that found no stored document holds a pile of 108 tiles
C34_Witness ==
    /\ response.op = "startup" /\ response.message = "created"
    /\ redis = <<>>
    /\ Len(game_state.tile_pool) = 108
    /\ CopiesIn(game_state.tile_pool, [type |-> "tong", value |-> 9]) = 4
    /\ served = 1

----------------------------------------------------------------------------
(* Test mode after a reset *)

\* C35: a reset leaves the game in test mode with current_player 0; while the
\* flag is on, discards by seats in any order succeed and leave current_player
\* as it is; a discard is refused for the turn only when the flag is off or
\* the document carries none, and then every discard out of turn is refused
C35_TestModeAfterReset ==
    /\ [][(Served /\ response'.op = "reset")
            => /\ "test_mode" \in game_state'.keys /\ game_state'.test_mode
               /\ game_state'.current_player = 0]_vars
    /\ [][(DiscardServed /\ TestModeOn)
            => /\ response'.success
               /\ game_state'.current_player = game_state.current_player]_vars
    /\ [][(DiscardServed /\ response'.message = "not_your_turn")
            => \/ "test_mode" \notin game_state.keys
               \/ ~game_state.test_mode]_vars
    /\ [][(DiscardServed /\ ~TestModeOn
            /\ response'.player_id # game_state.current_player)
            => response'.message = "not_your_turn"]_vars

\* after a reset seats 3, 2 and 1 have discarded in that order and
\* current_player is still 0
C35_Witness ==
    /\ response.op = "discard" /\ response.success /\ response.player_id = 1
    /\ game_state.game_id = 2
    /\ Len(game_state.discarded_tiles) = 3
    /\ \A k \in {"1", "2", "3"} : Len(game_state.player_discarded_tiles[k]) = 1
    /\ game_state.current_player = 0
    /\ TestModeOn
    /\ served = 4

----------------------------------------------------------------------------
(* Dealing and drawing *)

\* the known tiles of a seat
TilesOf(gs, p) == gs.player_hands[SeatKey(p)].tiles

\* the number of tiles in the four hands
TilesInHands(gs) ==
    Len(TilesOf(gs, 0)) + Len(TilesOf(gs, 1)) + Len(TilesOf(gs, 2))
        + Len(TilesOf(gs, 3))

\* C36: start_game on a state that has not started and holds the full pile
\* moves exactly 13 tiles from the pile into each of the four hands, so that
\* the pile drops by 52 from 108 to 56, and sets game_started; on a started
\* state it fails and leaves the state unchanged
C36_StartGameDeals ==
    [][(Served /\ response'.op = "start_game")
        => IF game_state.game_started
           THEN /\ ~response'.success
                /\ game_state' = game_state /\ redis' = redis
           ELSE Len(game_state.tile_pool) = 108
                => /\ response'.success
                   /\ game_state'.game_started
                   /\ Len(game_state'.tile_pool) = 56
                   /\ game_state'.tile_pool = SubSeq(game_state.tile_pool, 1, 56)
                   /\ \A p \in Seats :
                        /\ Len(TilesOf(game_state', p)) =
                                Len(TilesOf(game_state, p)) + 13
                        /\ TilesOf(game_state', p) =
                                TilesOf(game_state, p)
                                    \o [i \in 1 .. 13 |->
                                            game_state.tile_pool[109 - 13 * p - i]]
                   /\ game_state' =
                        [game_state EXCEPT
                            !.game_started = TRUE,
                            !.tile_pool = game_state'.tile_pool,
                            !.player_hands = game_state'.player_hands]]_vars

\* a second start_game was refused: the pile holds 56 tiles and each hand 13
C36_Witness ==
    /\ response.op = "start_game" /\ ~response.success
    /\ response.message = "already_started"
    /\ game_state.game_started
    /\ Len(game_state.tile_pool) = 56
    /\ \A p \in Seats : Len(TilesOf(game_state, p)) = 13
    /\ served = 2

\* C37: draw_tile fails and leaves the state unchanged when the game has not
\* started or the pile is empty; otherwise it removes one tile from the pile
\* and appends that tile to the drawing seat's hand and touches no other hand;
\* the pile grows on reset only, so after a deal at most 56 draws succeed
C37_DrawTile ==
    /\ [][(Served /\ response'.op = "draw_tile")
            => IF ~game_state.game_started \/ game_state.tile_pool = <<>>
               THEN /\ ~response'.success
                    /\ game_state' = game_state /\ redis' = redis
               ELSE LET n == Len(game_state.tile_pool)
                        tile == game_state.tile_pool[n]
                    IN  /\ response'.success /\ response'.tile = tile
                        /\ game_state'.tile_pool =
                                SubSeq(game_state.tile_pool, 1, n - 1)
                        /\ TilesOf(game_state', response'.player_id) =
                                Append(TilesOf(game_state, response'.player_id), tile)
                        /\ \A p \in Seats \ {response'.player_id} :
                                game_state'.player_hands[SeatKey(p)] =
                                    game_state.player_hands[SeatKey(p)]]_vars
    /\ [][(Served /\ response'.op # "reset")
            => Len(game_state'.tile_pool) <= Len(game_state.tile_pool)]_vars
    /\ [](game_state.game_started
            => /\ Len(game_state.tile_pool) <= 56
               /\ TilesInHands(game_state) - 52 = 56 - Len(game_state.tile_pool))

\* the 57th draw after a deal was refused: the pile is empty
C37_Witness ==
    /\ response.op = "draw_tile" /\ ~response.success
    /\ response.message = "pool_empty"
    /\ game_state.tile_pool = <<>>
    /\ TilesInHands(game_state) = 108

\* C38: dealing and drawing conserve the tiles: in every state reached from
\* reset by start_game and draw_tile, the pile and the four hands together
\* hold 4 copies of each of the 27 identities, so no identity is held more
\* than 4 times
C38_TileConservation ==
    /\ \A t \in SuitedTiles :
            CopiesIn(game_state.tile_pool, t)
                + CopiesIn(TilesOf(game_state, 0), t)
                + CopiesIn(TilesOf(game_state, 1), t)
                + CopiesIn(TilesOf(game_state, 2), t)
                + CopiesIn(TilesOf(game_state, 3), t) = 4
    /\ Len(game_state.tile_pool) + TilesInHands(game_state) = 108

\* seats 2, 3 and 0 have drawn after the deal of a reset game
C38_Witness ==
    /\ response.op = "draw_tile" /\ response.success /\ response.player_id = 0
    /\ game_state.game_id = 2
    /\ Len(TilesOf(game_state, 0)) = 14
    /\ Len(TilesOf(game_state, 2)) = 14
    /\ Len(game_state.tile_pool) = 53

----------------------------------------------------------------------------
(* The global pile and the per-seat piles *)

\* C39: the length of the global discard pile is the sum of the lengths of the
\* four per-seat piles, and the global pile is an interleaving of them: its
\* positions can be given to the seats so that each seat's pile is the tiles
\* at its positions, in the same order
C39_PilesAgree ==
    LET pile == game_state.discarded_tiles
        seat_pile(p) == game_state.player_discarded_tiles[SeatKey(p)]
    IN  /\ Len(pile) =
                Len(seat_pile(0)) + Len(seat_pile(1)) + Len(seat_pile(2))
                    + Len(seat_pile(3))
        /\ \E owner \in [1 .. Len(pile) -> Seats] :
                \A p \in Seats :
                    seat_pile(p) =
                        SubList(pile, {i \in 1 .. Len(pile) : owner[i] = p})

\* seat 2 discarded tong-3, then seat 0 tong-2, then seat 2 tong-2
C39_Witness ==
    /\ response.op = "discard" /\ response.success /\ response.player_id = 2
    /\ game_state.discarded_tiles = <<Tong3, Tong2, Tong2>>
    /\ game_state.player_discarded_tiles["2"] = <<Tong3, Tong2>>
    /\ game_state.player_discarded_tiles["0"] = <<Tong2>>

====
